---- MODULE Spec2Model ----
(***************************************************************************)
(* Model of the LCLS event translator of Hummingbird                       *)
(* (src/src/backend/lcls.py): LCLSTranslator.__init__, next_event,         *)
(* event_keys, translate, translate_core, _tr_bld_data_ebeam and the       *)
(* EPICSdict lazy cache.                                                   *)
(*                                                                         *)
(* The facility library (psana) and the coordination layer (ipc.mpi,       *)
(* Worker.conf) are the environment: a run is a sequence of nevents        *)
(* events, event p carrying the time p and the fiducial Fid(p); a lookup   *)
(* of an event in `missing` does not resolve (run.event returns None).     *)
(***************************************************************************)
EXTENDS Integers, Sequences, FiniteSets, TLC

\* ------------------------------------------------------------- bounds
MaxWorkers == 2     \* ipc.mpi.nr_workers() ranges over 1..MaxWorkers
MaxEvents == 3      \* a run holds 0..MaxEvents events
MaxList == 2        \* state['times'] and state['fiducials'] hold 0..MaxList entries
MaxCalls == 4       \* next_event calls explored per worker
MaxKeys == 2        \* an event holds 0..MaxKeys items
MaxDicts == 2       \* translate(evt, 'parameters') calls explored
MaxLookups == 2     \* lookups of one name explored per EPICSdict
MaxReading == 2     \* ebeamPhotonEnergy() ranges over -1..MaxReading
MaxCurrent == 1     \* ebeamPkCurrBC2() ranges over 0..MaxCurrent
MaxEnergy == 1      \* ebeamL3Energy() ranges over 0..MaxEnergy

\* ------------------------------------------------------------- values
\* Python's None and an absent dict key, for the integers and for the lists: an
\* optional integer is NoInt when None or absent, an optional list carries a tag.
NoInt == -1         \* None (lcls_number_of_frames) or key not in state (index_offset)
NoEvt == -1         \* the None that run.event returns for an unresolved lookup

Ranks == 0 .. (MaxWorkers - 1)
Positions == 0 .. (MaxEvents - 1)

\* Sequences over S of length 0..n
Lists(S, n) == UNION {[1 .. k -> S] : k \in 0 .. n}

VARIABLES
    state,        \* the configuration dict handed to LCLSTranslator.__init__
    cmdline,      \* parse_cmdline_args(): lcls_number_of_frames
    conf_hook,    \* 'end_of_run' in dir(Worker.conf)
    nr_workers,   \* ipc.mpi.nr_workers()
    nevents,      \* number of events of the run
    missing,      \* positions whose indexed lookup does not resolve
    tr,           \* tr[r]: the LCLSTranslator object of the worker of slave_rank r
    psana,        \* the psana release: the newest BldDataEBeam and EvrData.Data versions it has
    evt,          \* evt.keys() of the event at hand: the native type of each item
    res,          \* what the last event_keys or translate call returned or raised
    epics,        \* data_source.env().epicsStore(): pvNames() and aliases()
    dict,         \* the EPICSdict the last translate(evt, 'parameters') returned
    run,          \* the Records the run's EPICSdict objects built, name by name
    outcome,      \* what the last EPICSdict call returned or raised
    obj,          \* the BldDataEBeam object of the event at hand
    values        \* what _tr_bld_data_ebeam added to values, or raised

iterVars == <<state, cmdline, conf_hook, nr_workers, nevents, missing, tr>>
keyVars == <<psana, evt, res>>
epicsVars == <<epics, dict, run, outcome>>
beamVars == <<obj, values>>

\* ------------------------------------------------------------- psana
\* The fiducial of the event at position p.
Fid(p) == p % 2

\* psana.EventTime(time, fiducial)
EventTime(time, fiducial) == <<time, fiducial>>

\* run.times(): the event times of the run's index, in order.
RunTimes == [k \in 1 .. nevents |-> EventTime(k - 1, Fid(k - 1))]

\* run.event(time): the event of that time and fiducial, None when the lookup
\* does not resolve.
RunEvent(et) ==
    IF \E p \in 0 .. (nevents - 1) : EventTime(p, Fid(p)) = et /\ p \notin missing
    THEN CHOOSE p \in 0 .. (nevents - 1) : EventTime(p, Fid(p)) = et
    ELSE NoEvt

\* ------------------------------------------------------------- python
\* seq[:n] for n >= 0
Take(seq, n) == SubSeq(seq, 1, IF n < Len(seq) THEN n ELSE Len(seq))

\* seq[start::step] for start >= 0, step >= 1
Stride(seq, start, step) ==
    LET n == IF Len(seq) > start THEN (Len(seq) - start + step - 1) \div step ELSE 0
    IN  [k \in 1 .. n |-> seq[start + (k - 1) * step + 1]]

\* ------------------------------------------------------------- __init__
\* slice(ipc.mpi.slave_rank(), None, ipc.mpi.nr_workers()) unless reading shared memory
EventSlice_NoShard(dsrc, rank) == [start |-> 0, step |-> 1]

EventSlice(dsrc, rank) ==
    IF dsrc # "shmem=" THEN [start |-> rank, step |-> nr_workers]
    ELSE [start |-> 0, step |-> 1]

\* self.i of the indexing branch (Python 2: / on integers is floor division)
IndexStart ==
    IF state.index_offset # NoInt THEN state.index_offset \div nr_workers ELSE 0

\* self.timestamps of the indexing branch
IndexShard(rank) ==
    LET all == RunTimes
        capped == IF cmdline # NoInt THEN Take(all, cmdline) ELSE all
    IN  Stride(capped, rank, nr_workers)

\* The object a failed or not yet run constructor leaves: nothing to call.
\* timestamps_is and times_is tell None, a list, or an attribute never assigned.
Blank(status, raised) ==
    [status |-> status, raised |-> raised,
     timestamps_is |-> "None", timestamps |-> <<>>,
     times_is |-> "unset", times |-> <<>>, fiducials |-> <<>>,
     i |-> 0, event_slice |-> [start |-> 0, step |-> 1],
     N |-> NoInt, pos |-> 0, ret |-> <<>>, hooks |-> <<>>,
     last |-> "none", calls |-> 0]

\* LCLSTranslator(state) in the worker of slave_rank `rank`
NewTranslator(rank) ==
    IF state.PsanaConf = "nofile" THEN Blank("failed", "RuntimeError")
    ELSE IF state.DataSource = "absent" THEN Blank("failed", "ValueError")
    ELSE IF state.has_times \/ state.has_fiducials THEN
        IF ~(state.has_times /\ state.has_fiducials)
        THEN Blank("failed", "ValueError")
        ELSE IF state.DataSource # "exp=" THEN Blank("failed", "ValueError")
        ELSE [Blank("ready", "none") EXCEPT
                 !.N = cmdline, !.times_is = "list", !.times = state.times,
                 !.fiducials = state.fiducials, !.i = 0]
    ELSE IF state.indexing THEN
        [Blank("ready", "none") EXCEPT
            !.N = cmdline, !.i = IndexStart,
            !.timestamps_is = "list", !.timestamps = IndexShard(rank)]
    ELSE
        [Blank("ready", "none") EXCEPT
            !.N = cmdline, !.times_is = "None", !.i = 0,
            !.event_slice = EventSlice(state.DataSource, rank)]

\* ------------------------------------------------------------- next_event
\* The end-of-run path: the hook when Worker.conf has one, then slave_done.
EndOfRun(t) ==
    [t EXCEPT !.hooks = (IF conf_hook THEN <<"end_of_run">> ELSE <<>>) \o <<"slave_done">>,
              !.last = "None"]

\* return EventTranslator(evt, self)
Return(t, e) == [t EXCEPT !.ret = Append(t.ret, e), !.last = "event", !.hooks = <<>>]

\* An exception no handler of next_event catches: the call, and the worker, abort.
Raise(t, exc) ==
    [t EXCEPT !.status = "crashed", !.raised = exc, !.last = "raise", !.hooks = <<>>]

\* if self.timestamps: (lines 193-202)
NextIndexed(t) ==
    IF t.i >= Len(t.timestamps) THEN EndOfRun(t)
    ELSE Return([t EXCEPT !.i = t.i + 1], RunEvent(t.timestamps[t.i + 1]))

\* elif self.times is not None: (lines 203-217)
RECURSIVE TimesLoop(_)
TimesLoop(t) ==
    IF t.i < Len(t.times) THEN
        IF t.i >= Len(t.fiducials) THEN Raise(t, "IndexError")
        ELSE LET e == RunEvent(EventTime(t.times[t.i + 1], t.fiducials[t.i + 1]))
                 u == [t EXCEPT !.i = t.i + 1]
             IN  IF e = NoEvt THEN TimesLoop(u) ELSE Return(u, e)
    ELSE EndOfRun(t)

\* else: (lines 218-232); self.data_source.events() continues the one stream
RECURSIVE StreamLoop(_)
StreamLoop(t) ==
    IF (t.i % t.event_slice.step) # t.event_slice.start THEN
        IF t.pos >= nevents THEN EndOfRun(t)
        ELSE StreamLoop([t EXCEPT !.i = t.i + 1, !.pos = t.pos + 1])
    ELSE IF t.N # NoInt /\ t.i >= t.N THEN EndOfRun(t)
    ELSE IF t.pos >= nevents THEN EndOfRun(t)
    ELSE Return([t EXCEPT !.i = t.i + 1, !.pos = t.pos + 1], t.pos)

\* Python truth of self.timestamps: neither None nor empty
Truthy(t) == t.timestamps_is = "list" /\ t.timestamps # <<>>

NextEventOf(t) ==
    LET c == [t EXCEPT !.calls = t.calls + 1]
    IN  IF Truthy(c) THEN NextIndexed(c)
        ELSE IF c.times_is = "unset" THEN Raise(c, "AttributeError")
        ELSE IF c.times_is # "None" THEN TimesLoop(c)
        ELSE StreamLoop(c)

\* ------------------------------------------------------------- actions
Construct(r) ==
    /\ r < nr_workers
    /\ tr[r].status = "none"
    /\ tr' = [tr EXCEPT ![r] = NewTranslator(r)]
    /\ UNCHANGED <<state, cmdline, conf_hook, nr_workers, nevents, missing>>
    /\ UNCHANGED <<keyVars, epicsVars, beamVars>>

next_event(r) ==
    /\ r < nr_workers
    /\ tr[r].status = "ready"
    /\ tr[r].calls < MaxCalls
    /\ tr' = [tr EXCEPT ![r] = NextEventOf(tr[r])]
    /\ UNCHANGED <<state, cmdline, conf_hook, nr_workers, nevents, missing>>
    /\ UNCHANGED <<keyVars, epicsVars, beamVars>>

\* ------------------------------------------------------------- configurations
\* A key that is in the state dict or not: has_times, has_fiducials, indexing;
\* PsanaConf names an existing file ("file"), no file ("nofile") or is not set.
CapValues == {NoInt} \cup (0 .. MaxEvents)

StreamConfigs ==
    [PsanaConf : {"absent", "file"}, DataSource : {"exp=", "xtc", "shmem="},
     has_times : {FALSE}, times : {<<>>}, has_fiducials : {FALSE}, fiducials : {<<>>},
     indexing : {FALSE}, index_offset : {NoInt}]

IndexConfigs ==
    [PsanaConf : {"absent"}, DataSource : {"exp=", "xtc"},
     has_times : {FALSE}, times : {<<>>}, has_fiducials : {FALSE}, fiducials : {<<>>},
     indexing : {TRUE}, index_offset : {NoInt} \cup (0 .. MaxEvents)]

TimesConfigs ==
    {c \in [PsanaConf : {"absent"}, DataSource : {"exp=", "xtc"},
            has_times : BOOLEAN, times : Lists(Positions, MaxList),
            has_fiducials : BOOLEAN, fiducials : Lists({0, 1}, MaxList),
            indexing : BOOLEAN, index_offset : {NoInt}] :
        /\ c.has_times \/ c.has_fiducials
        /\ ~c.has_times => c.times = <<>>
        /\ ~c.has_fiducials => c.fiducials = <<>>}

BadConfigs ==
    {c \in [PsanaConf : {"absent", "file", "nofile"}, DataSource : {"absent", "exp="},
            has_times : BOOLEAN, times : {<<>>, <<0>>},
            has_fiducials : BOOLEAN, fiducials : {<<>>, <<0>>},
            indexing : BOOLEAN, index_offset : {NoInt}] :
        /\ c.PsanaConf = "nofile" \/ c.DataSource = "absent"
        /\ c.has_times <=> c.times # <<>>
        /\ c.has_fiducials <=> c.fiducials # <<>>}

MissingSets == {{}} \cup {{p} : p \in Positions}

InitIter(Configs, Caps) ==
    /\ state \in Configs
    /\ cmdline \in Caps
    /\ conf_hook \in BOOLEAN
    /\ nr_workers \in 1 .. MaxWorkers
    /\ nevents \in 0 .. MaxEvents
    /\ missing \in {m \in MissingSets : \A p \in m : p < nevents}
    /\ tr = [r \in Ranks |-> Blank("none", "none")]

vars == <<state, cmdline, conf_hook, nr_workers, nevents, missing, tr,
          psana, evt, res, epics, dict, run, outcome, obj, values>>

\* ------------------------------------------------------------- type registry
\* psana.Bld.BldDataEBeamV1 .. V7, in the order __init__ registers them
EBeamV ==
    <<"Bld.BldDataEBeamV1", "Bld.BldDataEBeamV2", "Bld.BldDataEBeamV3",
      "Bld.BldDataEBeamV4", "Bld.BldDataEBeamV5", "Bld.BldDataEBeamV6",
      "Bld.BldDataEBeamV7">>

\* psana.EvrData.DataV3, DataV4, in the order __init__ registers them
EvrDataV == <<"EvrData.DataV3", "EvrData.DataV4">>

\* Native types no line of __init__ registers
OtherTypes == {"Epics.ConfigV1", "ControlData.ConfigV3"}

\* The types the release has of a guarded family: a release that has version v
\* has the versions before it.
EBeamTypes(lib) == {EBeamV[v] : v \in 1 .. lib.ebeam}
EvrTypes(lib) == {EvrDataV[v - 2] : v \in 3 .. lib.evr}

\* The keys of self._n2c after __init__ (lines 119-151): each try block
\* registers the versions up to the first one the release lacks.
Registered(lib) ==
    {"Bld.BldDataFEEGasDetEnergy", "Bld.BldDataFEEGasDetEnergyV1", "Lusi.IpmFexV1",
     "Camera.FrameV1", "CsPad.DataV2", "CsPad2x2.ElementV1", "PNCCD.FullFrameV1",
     "PNCCD.FramesV1", "Acqiris.DataDescV1", "EventId"}
    \cup EBeamTypes(lib) \cup EvrTypes(lib)

\* self._n2c[ty] for a registered type
N2C(ty) ==
    IF ty \in {"Bld.BldDataFEEGasDetEnergy", "Bld.BldDataFEEGasDetEnergyV1",
               "Lusi.IpmFexV1"} THEN "pulseEnergies"
    ELSE IF ty = "Camera.FrameV1" THEN "camera"
    ELSE IF \E v \in 1 .. 7 : EBeamV[v] = ty THEN "photonEnergies"
    ELSE IF ty \in {"CsPad.DataV2", "CsPad2x2.ElementV1", "PNCCD.FullFrameV1",
                    "PNCCD.FramesV1"} THEN "photonPixelDetectors"
    ELSE IF ty = "Acqiris.DataDescV1" THEN "ionTOFs"
    ELSE IF ty = "EventId" THEN "eventID"
    ELSE "eventCodes"

\* self._c2n (lines 154-157), the inverse mapping: its keys, and its list for a key
C2NKeys(lib) == {N2C(ty) : ty \in Registered(lib)}
C2N(lib, c) == {ty \in Registered(lib) : N2C(ty) = c}

\* The native types an event of this release can hold
NativeTypes(lib) == Registered(lib) \cup OtherTypes

\* ------------------------------------------------------------- event_keys
\* _native_to_common(key): a list of at most one category
native_to_common_Any(ty) == <<N2C(ty)>>

native_to_common(ty) ==
    IF ty \in Registered(psana) THEN <<N2C(ty)>> ELSE <<>>

\* common_keys after the loop of event_keys: a set
CommonKeys(keys) ==
    UNION {{native_to_common(keys[n])[m] : m \in 1 .. Len(native_to_common(keys[n]))}
           : n \in 1 .. Len(keys)}

\* The orders list(common_keys) may give a set
Orderings(S) ==
    {q \in [1 .. Cardinality(S) -> S] : \A a, b \in DOMAIN q : a # b => q[a] # q[b]}

NoRes == [op |-> "none", key |-> "", raised |-> "none", list |-> <<>>]

event_keys ==
    /\ res = NoRes
    /\ \E q \in Orderings(CommonKeys(evt)) :
          res' = [op |-> "event_keys", key |-> "", raised |-> "none",
                  list |-> q \o <<"parameters">> \o <<"analysis">>]
    /\ UNCHANGED <<psana, evt, iterVars, epicsVars, beamVars>>

\* ------------------------------------------------------------- translate_core
\* The branch of the isinstance chain (lines 294-323) an object of native type
\* ty takes under category key: the conversion routine, or "raise".
Convert(ty, key) ==
    IF ty \in {"Bld.BldDataFEEGasDetEnergy", "Bld.BldDataFEEGasDetEnergyV1"}
        THEN "_tr_bld_data_fee_gas_det_energy"
    ELSE IF ty = "Lusi.IpmFexV1" THEN "_tr_lusi_ipm_fex"
    ELSE IF key = "photonEnergies" THEN "_tr_bld_data_ebeam"
    ELSE IF ty = "CsPad2x2.ElementV1" THEN "_tr_cspad2x2"
    ELSE IF ty = "CsPad.DataV2" THEN "_tr_cspad"
    ELSE IF ty = "PNCCD.FullFrameV1" THEN "_tr_pnccdFullFrame"
    ELSE IF ty = "PNCCD.FramesV1" THEN "_tr_pnccdFrames"
    ELSE IF ty = "Acqiris.DataDescV1" THEN "_tr_acqiris"
    ELSE IF ty = "Camera.FrameV1" THEN "_tr_camera"
    ELSE IF ty = "EventId" THEN "_tr_event_id"
    ELSE IF ty \in {"EvrData.DataV3", "EvrData.DataV4"} THEN "_tr_event_codes"
    ELSE "raise"

\* The loop of translate_core over evt.keys() from item n on, `done` the routines
\* applied so far: an item whose type is not one of self._c2n[key] is passed over.
RECURSIVE CoreLoop(_, _, _, _)
CoreLoop(keys, key, n, done) ==
    IF n > Len(keys) THEN [raised |-> "none", list |-> done]
    ELSE IF keys[n] \in C2N(psana, key) THEN
        IF Convert(keys[n], key) = "raise"
        THEN [raised |-> "RuntimeError", list |-> done]
        ELSE CoreLoop(keys, key, n + 1, Append(done, Convert(keys[n], key)))
    ELSE CoreLoop(keys, key, n + 1, done)

translate_core(keys, key) == CoreLoop(keys, key, 1, <<>>)

\* ------------------------------------------------------------- EPICSdict
\* The names a lookup may ask for
KeyUniverse == {"PV1", "PV2", "AL1"}

\* No Record: what a call that returns no Record leaves in outcome.rec
NoRec == [id |-> <<0, 0>>, name |-> ""]

\* epics.getPV(key): the PV of that name or alias, None for a name the store
\* does not know.
GetPV(key) ==
    IF \E n \in 1 .. Len(epics.pvNames) : epics.pvNames[n] = key THEN key
    ELSE IF \E n \in 1 .. Len(epics.aliases) : epics.aliases[n] = key THEN key
    ELSE "None"

\* EPICSdict(epics) (lines 477-480), the object number d of the run. _cache is a
\* function on the cached names. asked and lookups count, for each name, the
\* getPV calls and the lookups this object made, made the Records it built and
\* first the Record each name gave first: they tell the Records apart (Python's
\* object identity) and keep the history the claims speak of; no call reads them.
EPICSdict(d) ==
    [d |-> d, cache |-> [k \in {} |-> NoRec], keys_is |-> "None", keys |-> <<>>,
     asked |-> [k \in KeyUniverse |-> 0], lookups |-> [k \in KeyUniverse |-> 0],
     first |-> [k \in {} |-> NoRec], made |-> 0]

\* What the last call on the current EPICSdict did, before any call; op is
\* "EPICSdict" when the object was just made.
NoOutcome == [op |-> "none", key |-> "", raised |-> "none", rec |-> NoRec, list |-> <<>>]

\* What the run has seen of each name over all its EPICSdict objects: the
\* Records built for it, and the first of them.
NoRun == [decoded |-> [k \in KeyUniverse |-> 0], first |-> [k \in {} |-> NoRec]]

\* keys() (lines 482-486)
KeysOf(e) ==
    IF e.keys_is = "None"
    THEN [e EXCEPT !.keys_is = "list", !.keys = epics.pvNames \o epics.aliases]
    ELSE e

\* __getitem__(key) (lines 492-501): the object after the call, the Record
\* returned or the error raised, and whether a Record was built.
GetItem_NoCache(e, key) ==
    LET a == [e EXCEPT !.lookups[key] = @ + 1, !.asked[key] = @ + 1]
    IN  IF GetPV(key) = "None"
        THEN [obj |-> a, raised |-> "KeyError", rec |-> NoRec, built |-> FALSE]
        ELSE [obj |-> [a EXCEPT !.made = @ + 1], raised |-> "none",
              rec |-> [id |-> <<a.d, a.made + 1>>, name |-> key], built |-> TRUE]

GetItem_CacheFirst(e, key) ==
    LET l == [e EXCEPT !.lookups[key] = @ + 1]
    IN  IF key \notin DOMAIN l.cache THEN
            LET rec == [id |-> <<l.d, l.made + 1>>, name |-> key]
                c == [l EXCEPT !.asked[key] = @ + 1, !.made = @ + 1,
                               !.cache = (key :> rec) @@ l.cache]
            IN  IF GetPV(key) = "None"
                THEN [obj |-> c, raised |-> "KeyError", rec |-> NoRec, built |-> FALSE]
                ELSE [obj |-> c, raised |-> "none", rec |-> c.cache[key], built |-> TRUE]
        ELSE [obj |-> l, raised |-> "none", rec |-> l.cache[key], built |-> FALSE]

GetItem(e, key) ==
    LET l == [e EXCEPT !.lookups[key] = @ + 1]
    IN  IF key \notin DOMAIN l.cache THEN
            LET a == [l EXCEPT !.asked[key] = @ + 1]
            IN  IF GetPV(key) = "None"
                THEN [obj |-> a, raised |-> "KeyError", rec |-> NoRec, built |-> FALSE]
                ELSE LET rec == [id |-> <<a.d, a.made + 1>>, name |-> key]
                         c == [a EXCEPT !.made = @ + 1,
                                        !.cache = (key :> rec) @@ a.cache]
                     IN  [obj |-> c, raised |-> "none", rec |-> c.cache[key],
                          built |-> TRUE]
        ELSE [obj |-> l, raised |-> "none", rec |-> l.cache[key], built |-> FALSE]

\* The first Record a name gave, noted beside a history `first`
NoteFirst(first, key, r) ==
    IF r.raised = "none" /\ key \notin DOMAIN first THEN (key :> r.rec) @@ first
    ELSE first

keys ==
    /\ dict.d > 0
    /\ dict' = KeysOf(dict)
    /\ outcome' = [NoOutcome EXCEPT !.op = "keys", !.list = dict'.keys]
    /\ UNCHANGED <<epics, run, iterVars, keyVars, beamVars>>

len ==
    /\ dict.d > 0
    /\ dict' = KeysOf(dict)
    /\ outcome' = [NoOutcome EXCEPT !.op = "len", !.list = <<Len(dict'.keys)>>]
    /\ UNCHANGED <<epics, run, iterVars, keyVars, beamVars>>

getitem(key) ==
    /\ dict.d > 0
    /\ dict.lookups[key] < MaxLookups
    /\ LET r == GetItem(dict, key)
       IN  /\ dict' = [r.obj EXCEPT !.first = NoteFirst(dict.first, key, r)]
           /\ run' = [decoded |-> [run.decoded EXCEPT
                                      ![key] = IF r.built THEN @ + 1 ELSE @],
                      first |-> NoteFirst(run.first, key, r)]
           /\ outcome' = [NoOutcome EXCEPT !.op = "getitem", !.key = key,
                                           !.raised = r.raised, !.rec = r.rec]
    /\ UNCHANGED <<epics, iterVars, keyVars, beamVars>>

\* ------------------------------------------------------------- translate
\* _tr_epics() (lines 463-468): a new EPICSdict over the store, whatever the
\* earlier calls returned
TrEpics(old) == EPICSdict(old.d + 1)

\* The keys translate is asked for: the categories, the three special keys, and
\* a name that is the key() string of no item of the event.
TranslateKeys ==
    {"pulseEnergies", "camera", "photonEnergies", "photonPixelDetectors", "ionTOFs",
     "eventID", "eventCodes", "parameters", "analysis", "stream", "other"}

\* translate(evt, key) (lines 256-281). The list tells what is returned: the
\* routines that filled the dict of Records, an EPICSdict, or None when the key
\* is found nowhere.
translate(key) ==
    /\ key = "parameters" => dict.d < MaxDicts
    /\ IF key \in C2NKeys(psana) THEN
           LET r == translate_core(evt, key)
           IN  /\ res' = [op |-> "translate", key |-> key, raised |-> r.raised,
                          list |-> r.list]
               /\ UNCHANGED <<dict, outcome>>
       ELSE IF key = "parameters" THEN
           /\ dict' = TrEpics(dict)
           /\ outcome' = [NoOutcome EXCEPT !.op = "EPICSdict"]
           /\ res' = [op |-> "translate", key |-> key, raised |-> "none",
                      list |-> <<"EPICSdict">>]
       ELSE IF key \in {"analysis", "stream"} THEN
           /\ res' = [op |-> "translate", key |-> key, raised |-> "none", list |-> <<>>]
           /\ UNCHANGED <<dict, outcome>>
       ELSE
           /\ res' = [op |-> "translate", key |-> key, raised |-> "none",
                      list |-> <<"None">>]
           /\ UNCHANGED <<dict, outcome>>
    /\ UNCHANGED <<psana, evt, epics, run, iterVars, beamVars>>

\* ------------------------------------------------------------- _tr_bld_data_ebeam
\* A BldDataEBeam object: its class version, what ebeamPhotonEnergy() returns
\* when the class has the reading, ebeamPkCurrBC2() and ebeamL3Energy(). The
\* routine asks version 6 for the reading and the versions before it went
\* without; whether version 7 has it the source does not tell.
BeamRecords ==
    {o \in [version : 1 .. 7, direct_is : {"none", "value"},
            direct : (-1) .. MaxReading, pk : 0 .. MaxCurrent, l3 : 0 .. MaxEnergy] :
        /\ o.version <= 5 => o.direct_is = "none"
        /\ o.version = 6 => o.direct_is = "value"
        /\ o.direct_is = "none" => o.direct = 0}

\* The two ways a photon energy is got: the reading itself, or the formula.
Direct(reading) == [variant |-> "Direct", reading |-> reading, energy_profile |-> 0]

\* Lines 346-359. Energies are in units of 1e-10 GeV, which makes every
\* product of the routine exact; the photon energy in eV is
\* 44.42 * energy_profile * energy_profile, one to one for the profile.
Derived(peak_current, l3_energy) ==
    LET dl2_energy_gev == 10000000 * l3_energy
        ltu_wake_loss_milli == 16293 * peak_current
        sr_loss_per_segment == (63 * dl2_energy_gev) \div 100
        wake_loss_per_segment == 3000000 * peak_current
        energy_loss_per_segment == sr_loss_per_segment + wake_loss_per_segment
        energy_profile == dl2_energy_gev - ltu_wake_loss_milli
                          - energy_loss_per_segment \div 2000
    IN  [variant |-> "Derived", reading |-> 0, energy_profile |-> energy_profile]

NoRecord == [variant |-> "none", reading |-> 0, energy_profile |-> 0]

NoValues == [op |-> "none", raised |-> "none", photonEnergy |-> NoRecord]

\* _tr_bld_data_ebeam(values, obj) (lines 335-361) under the release lib: the
\* error raised, or the Record added under 'photonEnergy'. The isinstance test
\* names psana.Bld.BldDataEBeamV6, which a release before it does not have;
\* a reading of -1 is taken for no reading, and the formula then reads a
\* peak_current and a dl2_energy_gev that were never assigned.
TrBldDataEBeam(lib, o) ==
    IF lib.ebeam < 6
    THEN [op |-> "_tr_bld_data_ebeam", raised |-> "AttributeError",
          photonEnergy |-> NoRecord]
    ELSE IF o.version = 6 THEN
        IF o.direct = -1
        THEN [op |-> "_tr_bld_data_ebeam", raised |-> "UnboundLocalError",
              photonEnergy |-> NoRecord]
        ELSE [op |-> "_tr_bld_data_ebeam", raised |-> "none",
              photonEnergy |-> Direct(o.direct)]
    ELSE [op |-> "_tr_bld_data_ebeam", raised |-> "none",
          photonEnergy |-> Derived(o.pk, o.l3)]

\* translate_core(evt, 'photonEnergies') reaches the routine for the one item
\* of the event, the beam record (lines 292, 300-301).
tr_bld_data_ebeam ==
    /\ values = NoValues
    /\ translate_core(evt, "photonEnergies").list = <<"_tr_bld_data_ebeam">>
    /\ values' = TrBldDataEBeam(psana, obj)
    /\ UNCHANGED <<obj, iterVars, keyVars, epicsVars>>

\* ------------------------------------------------------------- specifications
IdleIter ==
    /\ state = [PsanaConf |-> "absent", DataSource |-> "exp=", has_times |-> FALSE,
                times |-> <<>>, has_fiducials |-> FALSE, fiducials |-> <<>>,
                indexing |-> FALSE, index_offset |-> NoInt]
    /\ cmdline = NoInt
    /\ conf_hook = FALSE
    /\ nr_workers = 1
    /\ nevents = 0
    /\ missing = {}
    /\ tr = [r \in Ranks |-> Blank("none", "none")]

Newest == [ebeam |-> 7, evr |-> 4]

IdleKeys == psana = Newest /\ evt = <<>> /\ res = NoRes

Stores ==
    {[pvNames |-> <<"PV1">>, aliases |-> <<"AL1">>],
     [pvNames |-> <<"PV1", "PV2">>, aliases |-> <<>>]}

IdleEpics ==
    /\ epics = [pvNames |-> <<"PV1">>, aliases |-> <<"AL1">>]
    /\ dict = EPICSdict(0)
    /\ run = NoRun
    /\ outcome = NoOutcome

IdleBeam ==
    /\ obj = [version |-> 1, direct_is |-> "none", direct |-> 0, pk |-> 0, l3 |-> 0]
    /\ values = NoValues

\* Every iteration mode and every configuration: the workers of one run.
Init ==
    /\ InitIter(StreamConfigs \cup IndexConfigs \cup TimesConfigs \cup BadConfigs, CapValues)
    /\ IdleKeys
    /\ IdleEpics
    /\ IdleBeam

Next == \E r \in Ranks : Construct(r) \/ next_event(r)

Spec == Init /\ [][Next]_vars

\* The runs that stream: neither an event list nor indexing is configured.
InitStream == InitIter(StreamConfigs, CapValues) /\ IdleKeys /\ IdleEpics /\ IdleBeam

SpecStream == InitStream /\ [][Next]_vars

\* One event of one release and one call on it: the categories it offers, or
\* the decoding of one key. evt.keys() is taken in the order of AllTypes. A
\* release lacks the later versions of at most one of the two guarded families.
Releases ==
    {lib \in [ebeam : 0 .. 7, evr : 2 .. 4] : lib.ebeam = 7 \/ lib.evr = 4}

AllTypes ==
    <<"Bld.BldDataFEEGasDetEnergy", "Bld.BldDataFEEGasDetEnergyV1", "Lusi.IpmFexV1",
      "Camera.FrameV1">> \o EBeamV \o
    <<"CsPad.DataV2", "CsPad2x2.ElementV1", "PNCCD.FullFrameV1", "PNCCD.FramesV1",
      "Acqiris.DataDescV1", "EventId">> \o EvrDataV \o
    <<"Epics.ConfigV1", "ControlData.ConfigV3">>

TypeIx(ty) == CHOOSE n \in 1 .. Len(AllTypes) : AllTypes[n] = ty

Events(lib) ==
    {e \in Lists(NativeTypes(lib), MaxKeys) :
        \A a, b \in 1 .. Len(e) : a < b => TypeIx(e[a]) <= TypeIx(e[b])}

InitKeys ==
    /\ psana \in Releases
    /\ evt \in Events(psana)
    /\ res = NoRes
    /\ IdleIter
    /\ IdleEpics
    /\ IdleBeam

NextKeys == event_keys \/ \E key \in TranslateKeys : res = NoRes /\ translate(key)

SpecKeys == InitKeys /\ [][NextKeys]_vars

\* The parameter store of one run and the EPICSdict objects translate hands out,
\* each used until the next one is asked for.
InitEpics ==
    /\ epics \in Stores
    /\ dict = EPICSdict(0)
    /\ run = NoRun
    /\ outcome = NoOutcome
    /\ IdleIter
    /\ IdleKeys
    /\ IdleBeam

NextEpics ==
    \/ translate("parameters")
    \/ keys
    \/ len
    \/ \E key \in KeyUniverse : getitem(key)

SpecEpics == InitEpics /\ [][NextEpics]_vars

\* One beam record of one release that registers its class, alone in its
\* event, decoded once under 'photonEnergies'.
InitEBeam ==
    /\ psana \in Releases
    /\ obj \in {o \in BeamRecords : o.version <= psana.ebeam}
    /\ evt = <<EBeamV[obj.version]>>
    /\ res = NoRes
    /\ values = NoValues
    /\ IdleIter
    /\ IdleEpics

NextEBeam == tr_bld_data_ebeam

SpecEBeam == InitEBeam /\ [][NextEBeam]_vars

\* ------------------------------------------------------------- properties
\* The events a worker's next_event calls returned (a handle that wraps a
\* missing event is no event).
Returned(r) == {tr[r].ret[k] : k \in 1 .. Len(tr[r].ret)} \ {NoEvt}

\* The stream positions open to the workers: all of them, or those below the cap.
StreamLimit == IF cmdline # NoInt /\ cmdline < nevents THEN cmdline ELSE nevents

Sharded == state.DataSource # "shmem="

Workers == 0 .. (nr_workers - 1)

\* C1: in sharded streaming mode with W workers, the k-th next_event call of
\* worker r that returns an event returns the event at position r + (k-1)*W, so
\* its events are those at the positions p with p mod W = r, in increasing
\* order; once the worker has got the end-of-stream signal it has returned all
\* of them (below the cap, when there is one), and once all workers have, every
\* position was returned by exactly one call of one worker.
C1_ShardedStream ==
    Sharded =>
        /\ \A r \in Workers :
              /\ \A k \in 1 .. Len(tr[r].ret) :
                    /\ tr[r].ret[k] = r + (k - 1) * nr_workers
                    /\ tr[r].ret[k] % nr_workers = r
                    /\ tr[r].ret[k] < nevents
              /\ tr[r].status # "crashed"
              /\ tr[r].last = "None" =>
                    Returned(r) = {p \in 0 .. (StreamLimit - 1) : p % nr_workers = r}
        /\ (\A r \in Workers : tr[r].last = "None") =>
              \A p \in 0 .. (StreamLimit - 1) :
                 Cardinality({rk \in Workers \X (1 .. MaxCalls) :
                                 /\ rk[2] <= Len(tr[rk[1]].ret)
                                 /\ tr[rk[1]].ret[rk[2]] = p}) = 1

\* Two workers have split a run of three events and both have reached the end.
C1_Witness ==
    /\ Sharded /\ cmdline = NoInt /\ nr_workers = 2 /\ nevents = 3
    /\ tr[0].last = "None" /\ tr[0].ret = <<0, 2>>
    /\ tr[1].last = "None" /\ tr[1].ret = <<1>>

\* C2: over recorded data, no event is returned to two distinct workers, in
\* whatever mode the run iterates (stream, index, or time/fiducial list).
C2_DisjointWorkers ==
    Sharded =>
        \A r1, r2 \in Workers : r1 # r2 => Returned(r1) \cap Returned(r2) = {}

\* The worker has no event left: its index shard, its time/fiducial list or
\* its stream is exhausted.
Exhausted(t) ==
    IF t.timestamps_is = "list" THEN t.i >= Len(t.timestamps)
    ELSE IF t.times_is = "list" THEN t.i >= Len(t.times)
    ELSE t.pos >= nevents

ExpectedHooks == IF conf_hook THEN <<"end_of_run", "slave_done">> ELSE <<"slave_done">>

\* C3: a next_event call made when the worker's events are exhausted returns
\* None without raising, after the end_of_run hook (when there is one) and then
\* slave_done; a call that returns an event invokes neither.
C3_EndOfStream ==
    [][\A r \in Ranks :
          next_event(r) =>
              /\ Exhausted(tr[r]) =>
                    tr'[r].last = "None" /\ tr'[r].hooks = ExpectedHooks
              /\ tr'[r].last = "event" => tr'[r].hooks = <<>>]_vars

\* The lookups a call has before it, in order: the rest of the index shard, or
\* the rest of the time/fiducial list.
Candidates(t) ==
    IF t.timestamps_is = "list"
    THEN [k \in 1 .. (Len(t.timestamps) - t.i) |-> t.timestamps[t.i + k]]
    ELSE [k \in 1 .. (Len(t.times) - t.i) |->
             EventTime(t.times[t.i + k], t.fiducials[t.i + k])]

\* The event of the first candidate that resolves, NoEvt when none does
FirstResolved(c) ==
    IF \E k \in 1 .. Len(c) : RunEvent(c[k]) # NoEvt
    THEN RunEvent(c[CHOOSE k \in 1 .. Len(c) :
                       /\ RunEvent(c[k]) # NoEvt
                       /\ \A j \in 1 .. (k - 1) : RunEvent(c[j]) = NoEvt])
    ELSE NoEvt

\* A worker in an indexed mode with candidates that can be looked up: a
\* non-empty index shard, or time and fiducial lists of one length.
IndexedLookup(t) ==
    \/ t.timestamps_is = "list" /\ t.timestamps # <<>>
    \/ t.times_is = "list" /\ Len(t.times) = Len(t.fiducials)

\* C9: in the indexed modes next_event passes over every candidate whose
\* lookup does not resolve: it returns the first later candidate that
\* resolves, or None when none does, and never a handle on a missing event.
C9_SkipsUnresolved ==
    [][\A r \in Ranks :
          (next_event(r) /\ IndexedLookup(tr[r])) =>
              LET e == FirstResolved(Candidates(tr[r]))
              IN  IF e = NoEvt THEN tr'[r].last = "None" /\ tr'[r].ret = tr[r].ret
                  ELSE tr'[r].last = "event" /\ tr'[r].ret = Append(tr[r].ret, e)]_vars

\* The configurations initialization must refuse
BadConfig ==
    \/ state.PsanaConf = "nofile"
    \/ state.DataSource = "absent"
    \/ state.has_times # state.has_fiducials
    \/ state.has_times /\ state.has_fiducials /\ Len(state.times) # Len(state.fiducials)
    \/ (state.has_times \/ state.has_fiducials) /\ state.DataSource # "exp="

\* C10: under a bad configuration the constructor raises a configuration
\* error in every worker: no translator is made and no event is fetched.
C10_FailFast ==
    BadConfig =>
        \A r \in Workers :
            tr[r].status # "none" =>
                /\ tr[r].status = "failed"
                /\ tr[r].raised \in {"RuntimeError", "ValueError"}
                /\ tr[r].calls = 0 /\ tr[r].ret = <<>>

\* C4: of one EPICSdict, after any keys(), len() and lookups, getPV was asked
\* only for names that were looked up, at most once for a name the store knows,
\* and a lookup that returns gives the very Record the first lookup of that
\* name gave.
C4_LazyOnce ==
    /\ \A k \in KeyUniverse :
          /\ dict.asked[k] > 0 => dict.lookups[k] > 0
          /\ GetPV(k) # "None" => dict.asked[k] <= 1
          /\ k \in DOMAIN dict.first =>
                k \in DOMAIN dict.cache /\ dict.cache[k] = dict.first[k]
    /\ (outcome.op = "getitem" /\ outcome.raised = "none") =>
          /\ outcome.key \in DOMAIN dict.first
          /\ outcome.rec = dict.first[outcome.key]

\* A name was looked up a second time, after keys() or len(), and decoded once.
C4_Witness ==
    /\ dict.keys_is = "list"
    /\ outcome.op = "getitem" /\ outcome.raised = "none"
    /\ dict.lookups[outcome.key] = 2 /\ dict.asked[outcome.key] = 1

\* C5: within one run a parameter is decoded at most once, over all the
\* translate(evt, 'parameters') calls, and every lookup of it that returns
\* gives the Record its first lookup in the run gave.
C5_NeverInvalidated ==
    /\ \A k \in KeyUniverse : run.decoded[k] <= 1
    /\ (outcome.op = "getitem" /\ outcome.raised = "none") =>
          outcome.rec = run.first[outcome.key]

\* C6: a lookup of a name the store does not know raises KeyError and leaves
\* the cache and the key list as they were.
C6_UnknownKey ==
    [][\A key \in KeyUniverse :
          (getitem(key) /\ GetPV(key) = "None") =>
              /\ outcome'.raised = "KeyError"
              /\ dict'.cache = dict.cache
              /\ dict'.keys_is = dict.keys_is /\ dict'.keys = dict.keys]_vars

\* An unknown name was looked up in a dict that holds a cached Record and its
\* key list.
C6_Witness ==
    /\ outcome.op = "getitem" /\ outcome.raised = "KeyError"
    /\ DOMAIN dict.cache # {} /\ dict.keys_is = "list"
    /\ \A k \in DOMAIN dict.cache : dict.cache[k] = dict.first[k]

\* The times a value occurs in a list
Count(q, x) == Cardinality({n \in 1 .. Len(q) : q[n] = x})

\* C7: _native_to_common gives a registered type its one registered category
\* and an unregistered type nothing; event_keys lists a category once when the
\* event holds an item of a type registered for it and not at all otherwise,
\* then 'parameters' and 'analysis', and raises nothing.
C7_CategoryResolution ==
    /\ \A ty \in NativeTypes(psana) :
          native_to_common(ty) =
              IF ty \in Registered(psana) THEN <<N2C(ty)>> ELSE <<>>
    /\ res.op = "event_keys" =>
          LET n == Len(res.list)
              head == SubSeq(res.list, 1, n - 2)
          IN  /\ res.raised = "none"
              /\ n >= 2
              /\ res.list[n - 1] = "parameters" /\ res.list[n] = "analysis"
              /\ \A m \in 1 .. Len(head) : head[m] \in C2NKeys(psana)
              /\ \A c \in C2NKeys(psana) :
                    Count(head, c) =
                        IF \E m \in 1 .. Len(evt) : evt[m] \in C2N(psana, c)
                        THEN 1 ELSE 0

\* event_keys ran on an event of two items of different types of one category.
C7_Witness ==
    /\ res.op = "event_keys"
    /\ Len(evt) = 2
    /\ evt[1] \in Registered(psana) /\ evt[2] \in Registered(psana)
    /\ evt[1] # evt[2] /\ N2C(evt[1]) = N2C(evt[2])
    /\ res.list = <<N2C(evt[1]), "parameters", "analysis">>

\* C8: decoding a core category over an event that holds an item of a type
\* with no conversion routine raises the unsupported-type error.
C8_UnsupportedFatal ==
    (/\ res.op = "translate"
     /\ res.key \in C2NKeys(psana)
     /\ \E m \in 1 .. Len(evt) : evt[m] \notin Registered(psana)) =>
        res.raised = "RuntimeError"

\* The zero-based position, in the worker's event sequence, of the event a
\* next_event call returned, old and new the worker before and after the call:
\* the position in the run's index, in the time/fiducial list, or in the stream.
PositionOf(old, new) ==
    IF old.timestamps_is = "list" THEN old.timestamps[old.i + 1][1]
    ELSE IF old.times_is = "list" THEN new.i - 1
    ELSE new.pos - 1

\* The worker of rank r has no position below the cap left.
CapReached(t, r) ==
    IF t.timestamps_is = "list" THEN r + t.i * nr_workers >= cmdline
    ELSE IF t.times_is = "list" THEN t.i >= cmdline
    ELSE t.pos >= cmdline

\* The call reads no attribute __init__ never assigned (an index shard that is
\* empty sends next_event to self.times, which the indexing branch leaves unset)
\* and no fiducial past the end of a list shorter than the time list.
Assigned(t) ==
    /\ Truthy(t) \/ t.times_is # "unset"
    /\ t.times_is = "list" => Len(t.times) = Len(t.fiducials)

\* C11: with a frame cap N configured, in every iteration mode no next_event
\* call returns an event whose position in the worker's event sequence is N or
\* more, and a call made once the cap is reached returns None (end-of-stream).
C11_CapEndsStream ==
    [][\A r \in Ranks :
          (next_event(r) /\ cmdline # NoInt /\ Assigned(tr[r])) =>
              /\ tr'[r].last = "event" => PositionOf(tr[r], tr'[r]) < cmdline
              /\ CapReached(tr[r], r) => tr'[r].last = "None"]_vars

\* The run iterates over its index: 'indexing' is configured and no event list.
IndexMode == state.indexing /\ ~state.has_times /\ ~state.has_fiducials

\* The configured index offset, 0 when none is
IndexOffset == IF state.index_offset # NoInt THEN state.index_offset ELSE 0

\* The index positions of worker r: at or after the offset, below the cap when
\* there is one, and congruent to r modulo the number of workers.
IndexPositions(r) ==
    {p \in 0 .. (StreamLimit - 1) : p >= IndexOffset /\ p % nr_workers = r}

\* C13: in indexed mode with W workers, index offset k and optional cap N, the
\* next_event calls of worker r return, in increasing order, exactly the events
\* at the positions p with k <= p (p < N when capped) and p mod W = r: none
\* before the offset, and at end-of-stream all of them (every lookup resolving).
C13_ShardedIndex ==
    (IndexMode /\ missing = {}) =>
        \A r \in Workers :
            /\ \A j \in 1 .. Len(tr[r].ret) :
                  /\ tr[r].ret[j] \in IndexPositions(r)
                  /\ j > 1 => tr[r].ret[j - 1] < tr[r].ret[j]
            /\ tr[r].last = "None" => Returned(r) = IndexPositions(r)

\* C12: a beam record decoded under 'photonEnergies' gives, without error for
\* every registered record version, the record's direct photon-energy reading
\* when it has one, whatever the reading's value, and otherwise the formula
\* applied to its peak current and L3 energy.
C12_PhotonEnergy ==
    values.op = "_tr_bld_data_ebeam" =>
        /\ values.raised = "none"
        /\ values.photonEnergy =
              IF obj.direct_is = "value" THEN Direct(obj.direct)
              ELSE Derived(obj.pk, obj.l3)

====
